---- MODULE Spec2Model ----
(***************************************************************************)
(* Retrieval core of the IB question-answering pipeline:                   *)
(*   agents/multi_agent_system_no_tools.py  process_query,                 *)
(*                                          _retrieve_context,             *)
(*                                          _fallback_classification       *)
(*   core/retrieval.py                      retrieve_documents,            *)
(*                                          multi_collection_search        *)
(*   tools/context_retriever.py             retrieve_context               *)
(*   config/collections.py                  COLLECTIONS,                   *)
(*                                          DOC_TYPE_TO_COLLECTION         *)
(*                                                                         *)
(* Text that the code inspects character by character (the raw query, the  *)
(* JSON strings of a classification) is a sequence of one-character        *)
(* strings.  Names that the code only compares or passes on (collection    *)
(* names, metadata keys) are TLA+ strings.                                 *)
(***************************************************************************)
EXTENDS Integers, Sequences, FiniteSets, TLC

(***************************************************************************)
(* Bounds of the model.                                                    *)
(***************************************************************************)
\* the store answers process_query with distances 1..MaxDist, in tenths
MaxDist == 3
\* the store answers retrieve_context with distances 1..ToolMaxDist, in tenths
ToolMaxDist == 1

(***************************************************************************)
(* Program constants.                                                      *)
(***************************************************************************)
\* relevance = 1 - distance (retrieval.py:59); 1 is Unit tenths
Unit == 10
\* all_results[:5] (multi_agent_system_no_tools.py:205)
TopK == 5
\* n_results=3 (multi_agent_system_no_tools.py:190)
NResults == 3
\* n_results_per_collection=2 (context_retriever.py:51)
ToolPerCollection == 2
\* n_results: int = 5 (context_retriever.py:16)
ToolNResults == 5
\* len(content) > 500 (multi_agent_system_no_tools.py:216)
ContentBudget == 500

(***************************************************************************)
(* Character sequences.                                                    *)
(***************************************************************************)
UpperLetters == <<"A","B","C","D","E","F","G","H","I","J","K","L","M","N","O","P","Q","R","S","T","U","V","W","X","Y","Z">>
LowerLetters == <<"a","b","c","d","e","f","g","h","i","j","k","l","m","n","o","p","q","r","s","t","u","v","w","x","y","z">>

\* str.lower() on one character
LowerChar(c) ==
    IF \E i \in 1..Len(UpperLetters) : UpperLetters[i] = c
    THEN LowerLetters[CHOOSE i \in 1..Len(UpperLetters) : UpperLetters[i] = c]
    ELSE c

\* str.lower()
Lower(s) == [i \in 1..Len(s) |-> LowerChar(s[i])]

\* the `in` operator on strings: t is a substring of s
Contains(s, t) ==
    \E i \in 0..(Len(s) - Len(t)) : SubSeq(s, i + 1, i + Len(t)) = t

\* the characters str.split() separates on (the ones the model's texts use)
IsSpace(c) == c \in {" ", "\t", "\n"}

RECURSIVE SplitFrom(_, _, _)
\* str.split(): the maximal runs of non-whitespace characters, in order
SplitFrom(s, i, cur) ==
    IF i > Len(s)
    THEN IF cur = <<>> THEN <<>> ELSE <<cur>>
    ELSE IF IsSpace(s[i])
         THEN IF cur = <<>>
              THEN SplitFrom(s, i + 1, <<>>)
              ELSE <<cur>> \o SplitFrom(s, i + 1, <<>>)
         ELSE SplitFrom(s, i + 1, Append(cur, s[i]))

Split(s) == SplitFrom(s, 1, <<>>)

\* seq[:n]
Take(seq, n) == SubSeq(seq, 1, IF Len(seq) < n THEN Len(seq) ELSE n)

RECURSIVE Join(_)
\* " ".join(parts)
Join(parts) ==
    IF parts = <<>> THEN <<>>
    ELSE IF Len(parts) = 1 THEN parts[1]
    ELSE parts[1] \o <<" ">> \o Join(Tail(parts))

S_general_info == <<"g","e","n","e","r","a","l","_","i","n","f","o">>
S_ia_feedback == <<"i","a","_","f","e","e","d","b","a","c","k">>
S_exam_question == <<"e","x","a","m","_","q","u","e","s","t","i","o","n">>
S_past_paper == <<"p","a","s","t","_","p","a","p","e","r">>
S_MathAA == <<"M","a","t","h","e","m","a","t","i","c","s"," ","A","A">>
S_MathAI == <<"M","a","t","h","e","m","a","t","i","c","s"," ","A","I">>
S_HL == <<"H","L">>
S_SL == <<"S","L">>
S_Physics == <<"P","h","y","s","i","c","s">>
K_ia == <<"i","a">>
K_internal == <<"i","n","t","e","r","n","a","l"," ","a","s","s","e","s","s","m","e","n","t">>
K_exam == <<"e","x","a","m">>
K_question == <<"q","u","e","s","t","i","o","n">>
K_paper == <<"p","a","p","e","r">>
K_solve == <<"s","o","l","v","e">>
K_math == <<"m","a","t","h">>
K_aa == <<"a","a">>
K_analysis == <<"a","n","a","l","y","s","i","s">>
K_ai == <<"a","i">>
K_applications == <<"a","p","p","l","i","c","a","t","i","o","n","s">>
K_hl == <<"h","l">>
K_higher == <<"h","i","g","h","e","r"," ","l","e","v","e","l">>
K_sl == <<"s","l">>
K_standard == <<"s","t","a","n","d","a","r","d"," ","l","e","v","e","l">>

(***************************************************************************)
(* JSON values, as json.loads produces them.  t is the Python type, s the  *)
(* characters of a str (or the digits of a number, "true"/"false" of a     *)
(* bool), items the elements of a list.                                    *)
(***************************************************************************)
JNull == [t |-> "null", s |-> <<>>, items |-> <<>>]
JStr(cs) == [t |-> "str", s |-> cs, items |-> <<>>]
JNum(cs) == [t |-> "num", s |-> cs, items |-> <<>>]
JBool(b) == [t |-> "bool", s |-> IF b THEN <<"t","r","u","e">> ELSE <<"f","a","l","s","e">>, items |-> <<>>]
JList(xs) == [t |-> "list", s |-> <<>>, items |-> xs]

\* the list of str that holds the given character sequences
JStrList(tokens) == JList([i \in 1..Len(tokens) |-> JStr(tokens[i])])

\* Python truthiness of a JSON value (what `if value:` tests)
Truthy(v) ==
    CASE v.t = "null" -> FALSE
      [] v.t = "str"  -> v.s # <<>>
      [] v.t = "num"  -> v.s # <<"0">>
      [] v.t = "bool" -> v.s = <<"t","r","u","e">>
      [] v.t = "list" -> v.items # <<>>
      [] OTHER        -> TRUE

\* dict.get(key, default) on a dict modelled as a function on its keys
Get(d, key, default) == IF key \in DOMAIN d THEN d[key] ELSE default

\* dict.get(key): None when the key is missing
GetOrNone(d, key) == Get(d, key, JNull)

\* the empty dict
EmptyDict == [k \in {} |-> JNull]

(***************************************************************************)
(* config/collections.py                                                   *)
(***************************************************************************)
\* the keys of COLLECTIONS
Registry == {"ib_general", "ia_guides", "ia_examples", "mark_schemes", "syllabus"}

D_ia_guide == <<"i","a","_","g","u","i","d","e">>
D_ia_example == <<"i","a","_","e","x","a","m","p","l","e">>
D_mark_scheme == <<"m","a","r","k","_","s","c","h","e","m","e">>
D_syllabus == <<"s","y","l","l","a","b","u","s">>
D_essay == <<"e","s","s","a","y">>

\* the keys of DOC_TYPE_TO_COLLECTION
DocTypes == {D_ia_guide, D_ia_example, D_mark_scheme, D_syllabus, S_general_info}

\* DOC_TYPE_TO_COLLECTION[doc_type]
DocTypeToCollection(dt) ==
    CASE dt = D_ia_guide     -> "ia_guides"
      [] dt = D_ia_example   -> "ia_examples"
      [] dt = D_mark_scheme  -> "mark_schemes"
      [] dt = D_syllabus     -> "syllabus"
      [] dt = S_general_info -> "ib_general"

\* list(DOC_TYPE_TO_COLLECTION.values()), in the dict's insertion order
AllCollections == <<"ia_guides", "ia_examples", "mark_schemes", "syllabus", "ib_general">>

(***************************************************************************)
(* The two "nothing found" texts of the code, and the context block.  A    *)
(* context is either a fixed text or a header followed by document         *)
(* entries.                                                                *)
(***************************************************************************)
\* multi_agent_system_no_tools.py:116 and :198
NoDocsAgent == "No relevant documents found."
\* context_retriever.py:56
NoDocsTool == "No relevant documents found for the query."

TextContext(txt) == [kind |-> "text", text |-> txt, entries |-> <<>>]
BlockContext(header, es) == [kind |-> "block", text |-> header, entries |-> es]

(***************************************************************************)
(* _fallback_classification                                                *)
(***************************************************************************)
\* a variant that tries the exam rule first
FallbackQueryTypeExamFirst(ql) ==
    IF \/ Contains(ql, K_exam) \/ Contains(ql, K_question)
       \/ Contains(ql, K_paper) \/ Contains(ql, K_solve)
    THEN S_exam_question
    ELSE IF Contains(ql, K_ia) \/ Contains(ql, K_internal)
         THEN S_ia_feedback
         ELSE S_general_info

\* the query_type the keyword rules give
FallbackQueryType(ql) ==
    IF Contains(ql, K_ia) \/ Contains(ql, K_internal)
    THEN S_ia_feedback
    ELSE IF \/ Contains(ql, K_exam) \/ Contains(ql, K_question)
            \/ Contains(ql, K_paper) \/ Contains(ql, K_solve)
         THEN S_exam_question
         ELSE S_general_info

\* a variant that tries the AI keywords first
FallbackSubjectAiFirst(ql) ==
    IF Contains(ql, K_math)
    THEN IF Contains(ql, K_ai) \/ Contains(ql, K_applications)
         THEN JStr(S_MathAI)
         ELSE JStr(S_MathAA)
    ELSE JNull

\* the subject the keyword rules give (None when the query is not about math)
FallbackSubject(ql) ==
    IF Contains(ql, K_math)
    THEN IF Contains(ql, K_aa) \/ Contains(ql, K_analysis)
         THEN JStr(S_MathAA)
         ELSE IF Contains(ql, K_ai) \/ Contains(ql, K_applications)
              THEN JStr(S_MathAI)
              ELSE JStr(S_MathAA)
    ELSE JNull

\* the level the keyword rules give
FallbackLevel(ql) ==
    IF Contains(ql, K_hl) \/ Contains(ql, K_higher)
    THEN JStr(S_HL)
    ELSE IF Contains(ql, K_sl) \/ Contains(ql, K_standard)
         THEN JStr(S_SL)
         ELSE JNull

FallbackClassification(q) ==
    [query_type   |-> JStr(FallbackQueryType(Lower(q))),
     subject      |-> FallbackSubject(Lower(q)),
     level        |-> FallbackLevel(Lower(q)),
     search_terms |-> JStrList(Take(Split(q), 5))]

(***************************************************************************)
(* process_query, step 1.  A reply of the classifier agent is either an    *)
(* exception of the call or the object _parse_json_response makes of the   *)
(* returned text (None when it finds or parses no object).                 *)
(***************************************************************************)
ReplyRaise == [kind |-> "raise", obj |-> EmptyDict]
ReplyNone == [kind |-> "none", obj |-> EmptyDict]
ReplyObject(o) == [kind |-> "object", obj |-> o]

\* a variant whose fallback is the default record, without the keyword rules
ClassificationOfDefault(q, reply) ==
    IF reply.kind = "object" /\ DOMAIN reply.obj # {}
    THEN reply.obj
    ELSE [query_type   |-> JStr(S_general_info),
          subject      |-> JNull,
          level        |-> JNull,
          search_terms |-> JStrList(Take(Split(q), 5))]

\* `not classification`: None and the empty dict are both falsy
ClassificationOf(q, reply) ==
    IF reply.kind = "object" /\ DOMAIN reply.obj # {}
    THEN reply.obj
    ELSE FallbackClassification(q)

(***************************************************************************)
(* _parse_json_response.  The text the classifier agent returns is a       *)
(* sequence of tokens: an opening brace, a closing brace, a run of other   *)
(* characters, or one "key": value member of an object.                    *)
(***************************************************************************)
OpenBrace == [tok |-> "{", key |-> "", value |-> JNull]
CloseBrace == [tok |-> "}", key |-> "", value |-> JNull]
Prose == [tok |-> "text", key |-> "", value |-> JNull]
Member(k, v) == [tok |-> "member", key |-> k, value |-> v]

\* response.find('{'): the first opening brace, -1 when there is none
Find(text) ==
    IF \E i \in 1..Len(text) : text[i] = OpenBrace
    THEN (CHOOSE i \in 1..Len(text) :
              text[i] = OpenBrace /\ \A j \in 1..(i - 1) : text[j] # OpenBrace) - 1
    ELSE -1

\* response.rfind('}'): the last closing brace, -1 when there is none
RFind(text) ==
    IF \E i \in 1..Len(text) : text[i] = CloseBrace
    THEN (CHOOSE i \in 1..Len(text) :
              text[i] = CloseBrace /\ \A j \in (i + 1)..Len(text) : text[j] # CloseBrace) - 1
    ELSE -1

\* response[start:end] for 0 <= start
Slice(text, start, end) == SubSeq(text, start + 1, end)

\* json.loads accepts the text: one object, its members between the braces
Loads(sub) ==
    /\ Len(sub) >= 2
    /\ sub[1] = OpenBrace
    /\ sub[Len(sub)] = CloseBrace
    /\ \A i \in 2..(Len(sub) - 1) : sub[i].tok = "member"

\* the dict json.loads makes of it: of two members of one key the last wins
LoadsObject(sub) ==
    LET keys == {sub[i].key : i \in 2..(Len(sub) - 1)}
        last(k) == CHOOSE i \in 2..(Len(sub) - 1) :
                       sub[i].key = k /\ \A j \in (i + 1)..(Len(sub) - 1) : sub[j].key # k
    IN  [k \in keys |-> sub[last(k)].value]

\* a variant that takes the first object of the text: up to the first
\* closing brace
ParseFirstObject(text) ==
    LET start == Find(text)
        closing == {i \in 1..Len(text) : text[i] = CloseBrace}
        end == IF closing = {} THEN 0
               ELSE CHOOSE i \in closing : \A j \in closing : i <= j
    IN  IF start # -1 /\ end # 0 /\ Loads(Slice(text, start, end))
        THEN ReplyObject(LoadsObject(Slice(text, start, end)))
        ELSE ReplyNone

\* lines 224-235: the object between the first '{' and the last '}', or None
\* when there is no such text or json.loads raises
ParseJsonResponse(text) ==
    LET start == Find(text)
        end == RFind(text) + 1
    IN  IF start # -1 /\ end # 0 /\ Loads(Slice(text, start, end))
        THEN ReplyObject(LoadsObject(Slice(text, start, end)))
        ELSE ReplyNone

(***************************************************************************)
(* _retrieve_context: filter, router, search query                         *)
(***************************************************************************)
\* the keys the agent path copies into the filter
AgentFilterKeys == {"subject", "level"}

\* metadata_filter = {} ; if classification.get(k): metadata_filter[k] = ...
BuildFilter(classification) ==
    [k \in {k \in AgentFilterKeys : Truthy(GetOrNone(classification, k))}
        |-> classification[k]]

\* a variant with the ia_feedback row in the other order
RouteIaSwapped(classification) ==
    LET query_type == Get(classification, "query_type", JStr(S_general_info))
    IN  IF query_type = JStr(S_ia_feedback)
        THEN <<"ia_examples", "ia_guides">>
        ELSE IF query_type = JStr(S_exam_question)
             THEN <<"mark_schemes", "general_info">>
             ELSE <<"ib_general", "syllabus">>

\* a variant that knows the three query types only
RouteKnownOnly(classification) ==
    LET query_type == Get(classification, "query_type", JStr(S_general_info))
    IN  IF query_type = JStr(S_ia_feedback)
        THEN <<"ia_guides", "ia_examples">>
        ELSE IF query_type = JStr(S_exam_question)
             THEN <<"mark_schemes", "general_info">>
             ELSE IF query_type = JStr(S_general_info)
                  THEN <<"ib_general", "syllabus">>
                  ELSE <<>>

\* the if / elif / else on query_type
Route(classification) ==
    LET query_type == Get(classification, "query_type", JStr(S_general_info))
    IN  IF query_type = JStr(S_ia_feedback)
        THEN <<"ia_guides", "ia_examples">>
        ELSE IF query_type = JStr(S_exam_question)
             THEN <<"mark_schemes", "general_info">>
             ELSE <<"ib_general", "syllabus">>

\* " ".join(x) raises TypeError unless x is a str or a list of str
Joinable(v) ==
    \/ v.t = "str"
    \/ v.t = "list" /\ \A i \in 1..Len(v.items) : v.items[i].t = "str"

\* " ".join(x): the characters of a str, or the elements of a list of str
JoinValue(v) ==
    IF v.t = "str"
    THEN Join([i \in 1..Len(v.s) |-> <<v.s[i]>>])
    ELSE Join([i \in 1..Len(v.items) |-> v.items[i].s])

\* classification.get("search_terms", query.split()[:5])
SearchTerms(classification, q) ==
    Get(classification, "search_terms", JStrList(Take(Split(q), 5)))

(***************************************************************************)
(* The document store and retrieve_documents.  The answer of the store to  *)
(* one collection query is a failure (the collection does not exist, the   *)
(* query raises) or at most n hits in ascending distance.                  *)
(***************************************************************************)
Distances(maxd) == 1..maxd

\* the length of a document that fits the budget, and of one that does not
ShortLen == ContentBudget - 100
LongLen == ContentBudget + 100

P_guide == <<"/","d","a","t","a","/","g",".","p","d","f">>

MetaPlain == [k \in {"source", "subject"} |-> IF k = "source" THEN JStr(P_guide) ELSE JStr(S_Physics)]
MetaNone == EmptyDict
\* a source that is a number: metadata values are str or int
MetaIntSource == [k \in {"source"} |-> JNum(<<"7">>)]

\* the doc type whose documents are ingested into collection c
\* (document_processor.py: DOC_TYPE_TO_COLLECTION.get(doc_type, "ib_general"))
DocTypeOf(c) ==
    IF \E dt \in DocTypes : DocTypeToCollection(dt) = c
    THEN CHOOSE dt \in DocTypes : DocTypeToCollection(dt) = c
    ELSE S_general_info

S_IA == <<"I","A">>

\* by collection, the metadata of a chunk ingested with every optional
\* field given
MetaFull ==
    [c \in Registry |->
        [k \in {"source", "doc_type", "subject", "level", "section"} |->
            CASE k = "source"   -> JStr(P_guide)
              [] k = "doc_type" -> JStr(DocTypeOf(c))
              [] k = "subject"  -> JStr(S_Physics)
              [] k = "level"    -> JStr(S_HL)
              [] k = "section"  -> JStr(S_IA)]]

Hit(c, i, d, len, meta) ==
    [content |-> [src |-> c, pos |-> i, len |-> len], metadata |-> meta, distance |-> d]

(***************************************************************************)
(* The where clause.  retrieve_documents turns the filter into a where     *)
(* clause (retrieval.py lines 24-38), query_collection puts it into the    *)
(* query parameters (chromadb_utils.py lines 39-48), and the store returns *)
(* the nearest documents that satisfy it.                                  *)
(***************************************************************************)
\* the order in which the callers insert the keys into the filter
FilterKeyOrder == <<"subject", "level", "doc_type">>

\* filter.items(): the entries of the dict, in insertion order
Items(map) ==
    LET RECURSIVE items(_)
        items(ks) ==
            IF ks = <<>> THEN <<>>
            ELSE (IF Head(ks) \in DOMAIN map
                  THEN <<[key |-> Head(ks), value |-> map[Head(ks)]]>>
                  ELSE <<>>) \o items(Tail(ks))
    IN  items(FilterKeyOrder)

NoWhere == [op |-> "none", preds |-> <<>>]

\* a variant that sends the first entry only
WhereFirstEntry(f) ==
    IF f.none \/ DOMAIN f.map = {}
    THEN NoWhere
    ELSE [op |-> "eq", preds |-> <<Head(Items(f.map))>>]

\* a variant that sends the entries of an empty filter as an empty $and
WhereAlways(f) ==
    IF f.none
    THEN NoWhere
    ELSE IF Len(Items(f.map)) = 1
         THEN [op |-> "eq", preds |-> Items(f.map)]
         ELSE [op |-> "and", preds |-> Items(f.map)]

\* lines 24-38: None for no filter and for the empty one, {key: {"$eq":
\* value}} for one entry, {"$and": [{key: {"$eq": value}}, ...]} for more
WhereFilter(f) ==
    IF f.none \/ DOMAIN f.map = {}
    THEN NoWhere
    ELSE IF Len(Items(f.map)) > 1
         THEN [op |-> "and", preds |-> Items(f.map)]
         ELSE [op |-> "eq", preds |-> Items(f.map)]

\* query_collection: query_texts and n_results, and where when it is given
\* and not empty (a where clause that is not None has one key)
QueryParams(q, n, where) ==
    LET given == [query_texts |-> <<q>>, n_results |-> n, where |-> where]
    IN  [k \in {k \in DOMAIN given : k = "where" => where.op # "none"} |-> given[k]]

\* the store's reading of the where clause of the parameters: every
\* predicate names a key the metadata has, with that value
Matches(params, metadata) ==
    "where" \in DOMAIN params =>
        \A i \in 1..Len(params.where.preds) :
            /\ params.where.preds[i].key \in DOMAIN metadata
            /\ metadata[params.where.preds[i].key] = params.where.preds[i].value

\* an answer of the store: it raised, or the hits it returned; held is what
\* the collection holds nearest to the query
Failure == [ok |-> FALSE, hits |-> <<>>, held |-> <<>>]

\* ascending sequences of k distances
AscendingDistances(k, maxd) ==
    {ds \in [1..k -> Distances(maxd)] : \A i \in 1..(k - 1) : ds[i] <= ds[i + 1]}

\* a distance beyond 1: cosine distance ranges over [0, 2]
FarDistance == Unit + 2

\* what collection c may hold nearest to the query, in ascending distance
Held(c, n, maxd) ==
    {[i \in 1..Len(ds) |-> Hit(c, i, ds[i], ShortLen, MetaFull[c])] :
        ds \in UNION {AscendingDistances(k, maxd) : k \in 0..n}}
    \cup {<<Hit(c, 1, 1, LongLen, MetaIntSource)>>}
    \cup {<<Hit(c, 1, 1, ContentBudget, MetaPlain),
            Hit(c, 2, 1, LongLen, MetaNone),
            Hit(c, 3, FarDistance, ShortLen, MetaFull[c])>>}

\* collection.query: the first n of the held documents that satisfy where
Query(held, params) ==
    [ok   |-> TRUE,
     hits |-> Take(SelectSeq(held, LAMBDA h : Matches(params, h.metadata)), params.n_results),
     held |-> held]

\* what the store may answer to the query: a collection that is not one of
\* COLLECTIONS was never created (setup_collections.py:28)
Answers(c, params, maxd) ==
    IF c \notin Registry
    THEN {Failure}
    ELSE {Failure} \cup {Query(held, params) : held \in Held(c, params.n_results, maxd)}

\* a variant that keeps the relevance within [0, 1]
RelevanceClamped(distance) ==
    IF Unit - distance < 0 THEN 0 ELSE IF Unit - distance > Unit THEN Unit ELSE Unit - distance

\* relevance = 1 - distance
Relevance(distance) == Unit - distance

\* a variant that loses the last hit
DocumentsButLast(hits) ==
    [i \in 1..(Len(hits) - 1) |->
        [content   |-> hits[i].content,
         metadata  |-> hits[i].metadata,
         distance  |-> hits[i].distance,
         relevance |-> Unit - hits[i].distance]]

\* the documents retrieve_documents makes of the store's hits
Documents(hits) ==
    [i \in 1..Len(hits) |->
        [content   |-> hits[i].content,
         metadata  |-> hits[i].metadata,
         distance  |-> hits[i].distance,
         relevance |-> Relevance(hits[i].distance)]]

\* the exception of the store: get_collection or collection.query raised it
StoreException == [type |-> "store exception"]
NoException == [type |-> "none"]

\* how a call of retrieve_documents ends: nothing between lines 22 and 62
\* catches, so what the store raises leaves the function as it is
RetrieveDocuments(ans) ==
    IF ans.ok
    THEN [ok |-> TRUE, documents |-> Documents(ans.hits), error |-> NoException]
    ELSE [ok |-> FALSE, documents |-> <<>>, error |-> StoreException]

(***************************************************************************)
(* list.sort(key=relevance, reverse=True): a stable sort, so documents of  *)
(* equal relevance keep the order they had.                                *)
(***************************************************************************)
RECURSIVE InsertBeforeEqual(_, _)
\* an unstable variant: x goes in front of the elements of its own relevance
InsertBeforeEqual(sorted, x) ==
    IF sorted = <<>>
    THEN <<x>>
    ELSE IF Head(sorted).relevance > x.relevance
         THEN <<Head(sorted)>> \o InsertBeforeEqual(Tail(sorted), x)
         ELSE <<x>> \o sorted

RECURSIVE InsertByRelevance(_, _)
\* x goes behind every element whose relevance is at least its own
InsertByRelevance(sorted, x) ==
    IF sorted = <<>>
    THEN <<x>>
    ELSE IF Head(sorted).relevance >= x.relevance
         THEN <<Head(sorted)>> \o InsertByRelevance(Tail(sorted), x)
         ELSE <<x>> \o sorted

RECURSIVE SortInto(_, _)
SortInto(sorted, rest) ==
    IF rest = <<>> THEN sorted
    ELSE SortInto(InsertByRelevance(sorted, Head(rest)), Tail(rest))

\* a variant that leaves the documents in retrieval order
SortNone(docs) == docs

SortByRelevance(docs) == SortInto(<<>>, docs)

(***************************************************************************)
(* Formatting of one document.                                             *)
(***************************************************************************)
\* the index of the last "/" of s, 0 when it has none
LastSlash(s) ==
    IF \E i \in 1..Len(s) : s[i] = "/"
    THEN CHOOSE i \in 1..Len(s) : s[i] = "/" /\ \A j \in (i + 1)..Len(s) : s[j] # "/"
    ELSE 0

\* path.split("/")[-1]
Basename(s) == SubSeq(s, LastSlash(s) + 1, Len(s))

\* metadata['source'].split('/') raises AttributeError when the source is
\* truthy and not a str
FormatRaises(doc) ==
    /\ DOMAIN doc.metadata # {}
    /\ Truthy(GetOrNone(doc.metadata, "source"))
    /\ GetOrNone(doc.metadata, "source").t # "str"

\* the provenance lines of the given keys: one for each truthy key
ProvenanceLines(metadata, keys) ==
    LET line(k) ==
            IF DOMAIN metadata # {} /\ Truthy(GetOrNone(metadata, k))
            THEN <<[label |-> k,
                    value |-> IF k = "source" THEN Basename(metadata[k].s)
                              ELSE metadata[k].s]>>
            ELSE <<>>
        RECURSIVE lines(_)
        lines(ks) == IF ks = <<>> THEN <<>> ELSE line(Head(ks)) \o lines(Tail(ks))
    IN  lines(keys)

\* a variant that marks content of exactly the budget as cut
HasMarkerAtBudget(len) == len >= ContentBudget

\* content[:500] + "..." when len(content) > 500
ShownLength(len) == IF len > ContentBudget THEN ContentBudget ELSE len
HasMarker(len) == len > ContentBudget

FormatEntry(i, doc, keys) ==
    [index      |-> i,
     provenance |-> ProvenanceLines(doc.metadata, keys),
     content    |-> [src |-> doc.content.src, pos |-> doc.content.pos,
                     shown |-> ShownLength(doc.content.len)],
     marker     |-> HasMarker(doc.content.len),
     relevance  |-> doc.relevance]

\* the entries of the given documents, numbered from 1
FormatEntries(docs, keys) == [i \in 1..Len(docs) |-> FormatEntry(i, docs[i], keys)]

\* _retrieve_context renders source and subject
AgentKeys == <<"source", "subject">>
\* retrieve_context renders source, subject and section
ToolKeys == <<"source", "subject", "section">>

\* _retrieve_context, lines 196-222, on the results gathered
AgentContext(results) ==
    IF results = <<>>
    THEN TextContext(NoDocsAgent)
    ELSE BlockContext("", FormatEntries(Take(SortByRelevance(results), TopK), AgentKeys))

\* whether lines 203-220 raise on the results gathered
AgentFormatRaises(results) ==
    \E i \in 1..Len(Take(SortByRelevance(results), TopK)) :
        FormatRaises(Take(SortByRelevance(results), TopK)[i])

\* a variant that leaves the context empty
RetrievalFallbackEmpty == TextContext("")

\* process_query, lines 114-116: any Exception of _retrieve_context
RetrievalFallback == TextContext(NoDocsAgent)

(***************************************************************************)
(* State.                                                                  *)
(*   entry            the entry point that runs                            *)
(*   cancelled        the task that runs it has been cancelled             *)
(*   pc               its position                                         *)
(*   query            the raw query text                                   *)
(*   args             doc_type, subject, level of retrieve_context         *)
(*   classification   the classification record of process_query           *)
(*   reply            what the classifier agent replied                    *)
(*   classifier_text  the text the classifier agent returned               *)
(*   metadata_filter  the filter built                                     *)
(*   collections      the collections to search, in order                  *)
(*   search_query     the text sent to the store                           *)
(*   idx              the loop position in collections                     *)
(*   all_results      the documents gathered                               *)
(*   calls            the retrieve_documents calls made so far             *)
(*   store            what the store has answered, by collection           *)
(*   context          the context produced                                 *)
(*   raised           an exception has left the entry point                *)
(*   prompt_context   the context put into the generation prompt           *)
(*   response_text    the output of the generation step                    *)
(*   final_text       the output of the refinement step                    *)
(*   first_results    the result of the first of two merges (MergeSpec)    *)
(***************************************************************************)
VARIABLES entry, cancelled, pc, query, args, classification, reply, classifier_text,
          metadata_filter, collections,
          search_query, idx, all_results, calls, store, context, raised,
          prompt_context, response_text, final_text, first_results

vars == <<entry, cancelled, pc, query, args, classification, reply, classifier_text,
          metadata_filter, collections,
          search_query, idx, all_results, calls, store, context, raised,
          prompt_context, response_text, final_text, first_results>>

NoContext == [kind |-> "unset", text |-> "", entries |-> <<>>]
NoReply == [kind |-> "unset", obj |-> EmptyDict]
NoArgs == [doc_type |-> JNull, subject |-> JNull, level |-> JNull]
NoStore == [c \in {} |-> Failure]
NoFirst == [done |-> FALSE, top |-> <<>>]

\* the store answers the same query to the same collection the same way
StoreAnswers(c, params, maxd) ==
    IF c \in DOMAIN store THEN {store[c]} ELSE Answers(c, params, maxd)
Reveal(c, ans) == [x \in DOMAIN store \cup {c} |-> IF x = c THEN ans ELSE store[x]]

\* a variant that hands the filter to the first collection only
FilterFirstOnly(f) == [none |-> DOMAIN f = {} \/ idx > 1, map |-> f]

\* `metadata_filter if metadata_filter else None`
FilterOrNone(f) == [none |-> DOMAIN f = {}, map |-> f]
\* the dict itself
FilterAsIs(f) == [none |-> FALSE, map |-> f]

\* the parameters retrieve_documents hands to the store for filter f
ParamsOf(q, f, n) == QueryParams(q, n, WhereFilter(f))

\* one call of retrieve_documents: as the caller made it, the parameters
\* that reached the store, and how it ended
Call(c, q, f, n, ans) ==
    [collection |-> c, query |-> q, filter |-> f, n |-> n,
     params |-> ParamsOf(q, f, n), outcome |-> RetrieveDocuments(ans)]

(***************************************************************************)
(* Inputs of process_query.                                                *)
(***************************************************************************)
Q_empty == <<>>
Q_scenario == <<"H","o","w"," ","d","o"," ","I"," ","w","r","i","t","e"," ","a"," ","g","o","o","d"," ","M","a","t","h"," ","A","A"," ","I","A"," ","i","n","t","r","o","d","u","c","t","i","o","n","?">>
Q_exam == <<"s","o","l","v","e"," ","p","a","p","e","r"," ","H","L">>
Q_plain == <<"s","y","l","l","a","b","u","s">>

Queries == {Q_empty, Q_scenario, Q_exam, Q_plain}

T_terms == JStrList(<<<<"i","a">>, <<"t","i","p","s">>>>)

\* marks a key that the dict does not have
Absent == [t |-> "missing", s |-> <<>>, items |-> <<>>]

\* a dict of the given keys, the keys marked Absent left out
Dict(qt, subj, lev, terms) ==
    LET given == [query_type |-> qt, subject |-> subj, level |-> lev, search_terms |-> terms]
    IN  [k \in {k \in DOMAIN given : given[k] # Absent} |-> given[k]]

QueryTypeValues ==
    {Absent, JNull, JStr(S_ia_feedback), JStr(S_exam_question), JStr(S_general_info),
     JStr(S_past_paper), JNum(<<"1">>)}
SubjectValues == {Absent, JNull, JStr(<<>>), JStr(S_Physics), JNum(<<"7">>)}
LevelValues == {Absent, JStr(S_HL), JList(<<JStr(S_HL)>>)}
TermsValues == {Absent, JNull, T_terms, JList(<<JNum(<<"1">>)>>)}

\* the objects the classifier's text may parse to
ParsedObjects ==
    {Dict(qt, JStr(S_Physics), JStr(S_HL), T_terms) : qt \in QueryTypeValues}
    \cup {Dict(JStr(S_ia_feedback), subj, lev, T_terms) :
            subj \in SubjectValues, lev \in LevelValues}
    \cup {Dict(JStr(S_ia_feedback), JNull, Absent, terms) : terms \in TermsValues}
    \cup {EmptyDict}

\* the replies tried with query q
Replies(q) ==
    {ReplyRaise, ReplyNone}
    \cup (IF q = Q_scenario
          THEN {ReplyObject(o) : o \in ParsedObjects}
          ELSE {ReplyObject(Dict(JStr(S_exam_question), JNull, JNull, Absent))})

\* the keys of a classification, in the order the classifier writes them
ClassificationKeys == <<"query_type", "subject", "level", "search_terms">>

\* the members of object o, in that order
MembersOf(o) ==
    LET RECURSIVE members(_)
        members(ks) ==
            IF ks = <<>> THEN <<>>
            ELSE (IF Head(ks) \in DOMAIN o THEN <<Member(Head(ks), o[Head(ks)])>> ELSE <<>>)
                 \o members(Tail(ks))
    IN  members(ClassificationKeys)

\* a text of the classifier for reply r: words only, or the object with
\* words around it
TextOf(r) ==
    IF r.kind = "object"
    THEN <<Prose, OpenBrace>> \o MembersOf(r.obj) \o <<CloseBrace, Prose>>
    ELSE <<Prose>>

M_exam == Member("query_type", JStr(S_exam_question))
M_physics == Member("subject", JStr(S_Physics))

\* texts that hold no object: no text at all, a brace without its partner,
\* the braces the wrong way round, words between the braces, two objects
OddTexts ==
    {<<>>, <<OpenBrace, M_exam>>, <<M_exam, CloseBrace>>, <<CloseBrace, M_exam, OpenBrace>>,
     <<OpenBrace, Prose, CloseBrace>>,
     <<OpenBrace, M_exam, CloseBrace, Prose, OpenBrace, M_physics, CloseBrace>>}

\* how the call of the classifier agent may end for query q: it raises, or
\* it returns a text
ClassifierOutputs(q) ==
    {[raised |-> TRUE, text |-> <<>>]}
    \cup {[raised |-> FALSE, text |-> TextOf(r)] : r \in Replies(q) \ {ReplyRaise}}
    \cup (IF q = Q_exam THEN {[raised |-> FALSE, text |-> t] : t \in OddTexts} ELSE {})

(***************************************************************************)
(* process_query                                                           *)
(***************************************************************************)
Init ==
    /\ entry = "process_query"
    /\ cancelled = FALSE
    /\ pc = "classify"
    /\ query \in Queries
    /\ args = NoArgs
    /\ classification = EmptyDict
    /\ reply = NoReply
    /\ classifier_text = <<>>
    /\ metadata_filter = EmptyDict
    /\ collections = <<>>
    /\ search_query = <<>>
    /\ idx = 1
    /\ all_results = <<>>
    /\ calls = <<>>
    /\ store = NoStore
    /\ context = NoContext
    /\ raised = FALSE
    /\ prompt_context = NoContext
    /\ response_text = ""
    /\ final_text = ""
    /\ first_results = NoFirst

\* lines 95-109: the classifier's answer, or the keyword fallback
Classify ==
    /\ pc = "classify"
    /\ \E out \in ClassifierOutputs(query) :
          LET r == IF out.raised THEN ReplyRaise ELSE ParseJsonResponse(out.text)
          IN  /\ classifier_text' = out.text
              /\ reply' = r
              /\ classification' = ClassificationOf(query, r)
    /\ pc' = "retrieve"
    /\ UNCHANGED <<entry, cancelled, query, args, metadata_filter, collections, search_query,
                   idx, all_results, calls, store, context, raised, prompt_context,
                   response_text, final_text, first_results>>

\* a variant that keeps the list of the call before, as a list held by the
\* instance would be
KeptList == all_results

\* line 180, `all_results = []`: a new list in every call
NewList == <<>>

\* lines 162-181: filter, router, search query.  A TypeError of the join
\* leaves _retrieve_context and is handled at lines 114-116.
RetrieveStart ==
    /\ pc = "retrieve"
    /\ metadata_filter' = BuildFilter(classification)
    /\ collections' = Route(classification)
    /\ all_results' = NewList
    /\ idx' = 1
    /\ IF Joinable(SearchTerms(classification, query))
       THEN /\ search_query' = JoinValue(SearchTerms(classification, query))
            /\ pc' = "search"
            /\ UNCHANGED context
       ELSE /\ context' = RetrievalFallback
            /\ pc' = "generate"
            /\ UNCHANGED search_query
    /\ UNCHANGED <<entry, cancelled, query, args, classification, reply, classifier_text, calls, store, raised,
                   prompt_context, response_text, final_text, first_results>>

\* a variant whose try encloses the loop: the first failing collection ends it
SearchCollectionAbort ==
    /\ pc = "search"
    /\ idx <= Len(collections)
    /\ \E ans \in StoreAnswers(collections[idx],
                               ParamsOf(search_query, FilterOrNone(metadata_filter), NResults),
                               MaxDist) :
          /\ store' = Reveal(collections[idx], ans)
          /\ calls' = Append(calls, Call(collections[idx], search_query,
                                         FilterOrNone(metadata_filter), NResults, ans))
          /\ IF ans.ok
             THEN /\ all_results' = all_results \o Documents(ans.hits)
                  /\ UNCHANGED <<pc, context>>
             ELSE /\ context' = RetrievalFallback
                  /\ pc' = "generate"
                  /\ UNCHANGED all_results
    /\ idx' = idx + 1
    /\ UNCHANGED <<entry, cancelled, query, args, classification, reply, classifier_text, metadata_filter, collections,
                   search_query, raised, prompt_context, response_text,
                   final_text, first_results>>

\* lines 183-194: one pass of the loop; an Exception of retrieve_documents
\* is caught and the collection adds nothing
SearchCollection ==
    /\ pc = "search"
    /\ idx <= Len(collections)
    /\ \E ans \in StoreAnswers(collections[idx],
                               ParamsOf(search_query, FilterOrNone(metadata_filter), NResults),
                               MaxDist) :
          /\ store' = Reveal(collections[idx], ans)
          /\ calls' = Append(calls, Call(collections[idx], search_query,
                                         FilterOrNone(metadata_filter), NResults, ans))
          /\ all_results' = IF ans.ok THEN all_results \o Documents(ans.hits)
                            ELSE all_results
    /\ idx' = idx + 1
    /\ UNCHANGED <<entry, cancelled, pc, query, args, classification, reply, classifier_text, metadata_filter, collections,
                   search_query, context, raised, prompt_context, response_text,
                   final_text, first_results>>

\* lines 196-222: sentinel, or sort, top 5 and format.  An exception of the
\* formatting is handled at lines 114-116.
FormatContext ==
    /\ pc = "search"
    /\ idx > Len(collections)
    /\ all_results' = SortByRelevance(all_results)
    /\ context' = IF AgentFormatRaises(all_results)
                  THEN RetrievalFallback
                  ELSE AgentContext(all_results)
    /\ pc' = "generate"
    /\ UNCHANGED <<entry, cancelled, query, args, classification, reply, classifier_text, metadata_filter, collections,
                   search_query, idx, calls, store, raised, prompt_context,
                   response_text, final_text, first_results>>

\* a variant that returns the error message at once when the generation
\* step raises
GenerateReturnsOnFailure ==
    /\ pc = "generate"
    /\ prompt_context' = context
    /\ \E ok \in BOOLEAN :
          IF ok
          THEN /\ response_text' = "answer"
               /\ pc' = "refine"
               /\ UNCHANGED final_text
          ELSE /\ response_text' = "I encountered an error processing your query"
               /\ final_text' = "I encountered an error processing your query"
               /\ pc' = "done"
    /\ UNCHANGED <<entry, cancelled, query, args, classification, reply, classifier_text,
                   metadata_filter, collections, search_query, idx, all_results,
                   calls, store, context, raised, first_results>>

\* lines 118-132: the generation step, with the context in its prompt
Generate ==
    /\ pc = "generate"
    /\ prompt_context' = context
    /\ \E ok \in BOOLEAN :
          response_text' = IF ok THEN "answer"
                           ELSE "I encountered an error processing your query"
    /\ pc' = "refine"
    /\ UNCHANGED <<entry, cancelled, query, args, classification, reply, classifier_text, metadata_filter, collections,
                   search_query, idx, all_results, calls, store, context, raised,
                   final_text, first_results>>

\* lines 134-156: the refinement step
Refine ==
    /\ pc = "refine"
    /\ \E ok \in BOOLEAN :
          final_text' = IF ok THEN "refined answer" ELSE response_text
    /\ pc' = "done"
    /\ UNCHANGED <<entry, cancelled, query, args, classification, reply, classifier_text, metadata_filter, collections,
                   search_query, idx, all_results, calls, store, context, raised,
                   prompt_context, response_text, first_results>>

Next ==
    \/ Classify
    \/ RetrieveStart
    \/ SearchCollection
    \/ FormatContext
    \/ Generate
    \/ Refine

Spec == Init /\ [][Next]_vars

(***************************************************************************)
(* retrieve_context (tools/context_retriever.py) and                       *)
(* multi_collection_search (core/retrieval.py)                             *)
(***************************************************************************)
\* the header of the tool's context block
ToolHeader == "RELEVANT CONTEXT:"

\* the keys the tool copies into the filter
ToolFilterKeys == {"subject", "level", "doc_type"}

\* lines 23-30: if subject: ... if level: ... if doc_type: ...
ToolFilter(a) == [k \in {k \in ToolFilterKeys : Truthy(a[k])} |-> a[k]]

\* line 33: doc_type and doc_type in DOC_TYPE_TO_COLLECTION
SingleCollection(a) == Truthy(a.doc_type) /\ a.doc_type.t = "str" /\ a.doc_type.s \in DocTypes

\* a variant that sends an unknown doc_type to ib_general alone, as
\* _get_collection_name of the document processor does
ToolCollectionsDefault(a) ==
    IF SingleCollection(a) THEN <<DocTypeToCollection(a.doc_type.s)>>
    ELSE IF Truthy(a.doc_type) THEN <<"ib_general">> ELSE AllCollections

\* lines 33-52: the one mapped collection, or all of them
ToolCollections(a) ==
    IF SingleCollection(a) THEN <<DocTypeToCollection(a.doc_type.s)>> ELSE AllCollections

\* lines 54-84 on the results gathered
ToolContext(results) ==
    IF results = <<>>
    THEN TextContext(NoDocsTool)
    ELSE BlockContext(ToolHeader, FormatEntries(results, ToolKeys))

\* whether lines 60-82 raise on the results gathered
ToolFormatRaises(results) == \E i \in 1..Len(results) : FormatRaises(results[i])

\* the arguments the tool is called with
ToolArgs ==
    {[doc_type |-> dt, subject |-> subj, level |-> JNull] :
        dt \in {JNull, JStr(D_essay)}, subj \in {JNull, JStr(S_Physics)}}
    \cup {[doc_type |-> JStr(D_mark_scheme), subject |-> JStr(<<>>), level |-> JStr(S_HL)]}

ToolInit ==
    /\ entry = "retrieve_context"
    /\ cancelled = FALSE
    /\ pc = "tool"
    /\ query = Q_exam
    /\ args \in ToolArgs
    /\ classification = EmptyDict
    /\ reply = NoReply
    /\ classifier_text = <<>>
    /\ metadata_filter = EmptyDict
    /\ collections = <<>>
    /\ search_query = <<>>
    /\ idx = 1
    /\ all_results = <<>>
    /\ calls = <<>>
    /\ store = NoStore
    /\ context = NoContext
    /\ raised = FALSE
    /\ prompt_context = NoContext
    /\ response_text = ""
    /\ final_text = ""
    /\ first_results = NoFirst

\* context_retriever.py lines 20-33: filter and choice of collections
ToolStart ==
    /\ pc = "tool"
    /\ metadata_filter' = ToolFilter(args)
    /\ collections' = ToolCollections(args)
    /\ search_query' = query
    /\ pc' = IF SingleCollection(args) THEN "single" ELSE "multi"
    /\ UNCHANGED <<entry, cancelled, query, args, classification, reply, classifier_text, idx, all_results, calls, store,
                   context, raised, prompt_context, response_text, final_text,
                   first_results>>

\* lines 34-42: retrieve_documents on the mapped collection; its exception
\* leaves retrieve_context
ToolSingle ==
    /\ pc = "single"
    /\ \E ans \in StoreAnswers(collections[1],
                               ParamsOf(search_query, FilterAsIs(metadata_filter), ToolNResults),
                               ToolMaxDist) :
          /\ store' = Reveal(collections[1], ans)
          /\ calls' = Append(calls, Call(collections[1], search_query,
                                         FilterAsIs(metadata_filter), ToolNResults, ans))
          /\ IF ans.ok
             THEN /\ all_results' = Documents(ans.hits)
                  /\ pc' = "format"
                  /\ UNCHANGED raised
             ELSE /\ raised' = TRUE
                  /\ pc' = "done"
                  /\ UNCHANGED all_results
    /\ UNCHANGED <<entry, cancelled, query, args, classification, reply, classifier_text, metadata_filter, collections,
                   search_query, idx, context, prompt_context, response_text,
                   final_text, first_results>>

\* retrieval.py lines 96-107: one pass of the loop of multi_collection_search
MultiSearch ==
    /\ pc = "multi"
    /\ idx <= Len(collections)
    /\ \E ans \in StoreAnswers(collections[idx],
                               ParamsOf(search_query, FilterAsIs(metadata_filter), ToolPerCollection),
                               ToolMaxDist) :
          /\ store' = Reveal(collections[idx], ans)
          /\ calls' = Append(calls, Call(collections[idx], search_query,
                                         FilterAsIs(metadata_filter), ToolPerCollection, ans))
          /\ all_results' = IF ans.ok THEN all_results \o Documents(ans.hits)
                            ELSE all_results
    /\ idx' = idx + 1
    /\ UNCHANGED <<entry, cancelled, pc, query, args, classification, reply, classifier_text, metadata_filter, collections,
                   search_query, context, raised, prompt_context, response_text,
                   final_text, first_results>>

\* retrieval.py lines 109-112: sort and return everything
MultiSort ==
    /\ pc = "multi"
    /\ idx > Len(collections)
    /\ all_results' = SortByRelevance(all_results)
    /\ pc' = "format"
    /\ UNCHANGED <<entry, cancelled, query, args, classification, reply, classifier_text, metadata_filter, collections,
                   search_query, idx, calls, store, context, raised, prompt_context,
                   response_text, final_text, first_results>>

\* context_retriever.py lines 54-84: sentinel or block; an exception of the
\* formatting leaves retrieve_context
ToolFormat ==
    /\ pc = "format"
    /\ IF ToolFormatRaises(all_results)
       THEN raised' = TRUE /\ UNCHANGED context
       ELSE context' = ToolContext(all_results) /\ UNCHANGED raised
    /\ pc' = "done"
    /\ UNCHANGED <<entry, cancelled, query, args, classification, reply, classifier_text, metadata_filter, collections,
                   search_query, idx, all_results, calls, store, prompt_context,
                   response_text, final_text, first_results>>

ToolNext ==
    \/ ToolStart
    \/ ToolSingle
    \/ MultiSearch
    \/ MultiSort
    \/ ToolFormat

ToolSpec == ToolInit /\ [][ToolNext]_vars

(***************************************************************************)
(* The merge of _retrieve_context (lines 179-205) run twice on one store,  *)
(* the second time with the collections in the reverse order.              *)
(***************************************************************************)
Reverse(seq) == [i \in 1..Len(seq) |-> seq[Len(seq) + 1 - i]]

\* the classifications whose routed lists are merged
MergeClassifications ==
    {Dict(qt, JNull, JNull, T_terms) :
        qt \in {JStr(S_ia_feedback), JStr(S_exam_question), JStr(S_general_info)}}

MergeInit ==
    /\ entry = "merge"
    /\ cancelled = FALSE
    /\ pc = "search"
    /\ query = Q_scenario
    /\ args = NoArgs
    /\ classification \in MergeClassifications
    /\ reply = NoReply
    /\ classifier_text = <<>>
    /\ metadata_filter = BuildFilter(classification)
    /\ collections \in {Route(classification), Reverse(Route(classification))}
    /\ search_query = JoinValue(SearchTerms(classification, query))
    /\ idx = 1
    /\ all_results = <<>>
    /\ calls = <<>>
    /\ store = NoStore
    /\ context = NoContext
    /\ raised = FALSE
    /\ prompt_context = NoContext
    /\ response_text = ""
    /\ final_text = ""
    /\ first_results = NoFirst

\* the ranked top K of the merge: all_results[:5] of the sorted list
RankedTopK == Take(all_results, TopK)

\* the first merge is kept and the merge starts again, collections reversed
MergeAgain ==
    /\ entry = "merge"
    /\ pc = "generate"
    /\ ~first_results.done
    /\ first_results' = [done |-> TRUE, top |-> RankedTopK]
    /\ collections' = Reverse(collections)
    /\ idx' = 1
    /\ all_results' = <<>>
    /\ context' = NoContext
    /\ pc' = "search"
    /\ UNCHANGED <<entry, cancelled, query, args, classification, reply, classifier_text, metadata_filter, search_query,
                   calls, store, raised, prompt_context, response_text, final_text>>

MergeNext ==
    \/ SearchCollection
    \/ FormatContext
    \/ MergeAgain

MergeSpec == MergeInit /\ [][MergeNext]_vars

(***************************************************************************)
(* _fallback_classification on its own, over queries made of the words the *)
(* keyword rules look for and of words they do not.                        *)
(***************************************************************************)
MaxWords == 2

Vocabulary ==
    {<<"I","A">>,
     <<"i","n","t","e","r","n","a","l">>,
     <<"a","s","s","e","s","s","m","e","n","t">>,
     <<"e","x","a","m">>,
     <<"Q","u","e","s","t","i","o","n">>,
     <<"p","a","p","e","r">>,
     <<"s","o","l","v","e">>,
     <<"M","a","t","h">>,
     <<"A","A">>,
     <<"a","n","a","l","y","s","i","s">>,
     <<"A","I">>,
     <<"a","p","p","l","i","c","a","t","i","o","n","s">>,
     <<"H","L">>,
     <<"h","i","g","h","e","r">>,
     <<"l","e","v","e","l">>,
     <<"S","L">>,
     <<"s","t","a","n","d","a","r","d">>,
     <<"s","p","e","c","i","a","l">>,
     <<"n","o","t","e","s">>}

\* the queries of at most n words, joined by single spaces
WordQueries(n) == {Join(ws) : ws \in UNION {[1..k -> Vocabulary] : k \in 0..n}}

\* leading, doubled and trailing whitespace, a tab, and more than five tokens
Q_spaced == <<" "," ","s","o","l","v","e","\t","H","L"," "," ","p","a","p","e","r"," ","o","n","e"," ","t","w","o"," ","t","h","r","e","e"," ","f","o","u","r"," ">>

\* a math query that names both courses, AI first
Q_tie == <<"I","s"," ","M","a","t","h"," ","A","I"," ","o","r"," ","A","A"," ","b","e","t","t","e","r"," ","f","o","r"," ","H","L","?">>

FallbackQueries == WordQueries(MaxWords) \cup Queries \cup {Q_spaced, Q_tie}

FallbackInit ==
    /\ entry = "fallback"
    /\ cancelled = FALSE
    /\ pc = "fallback"
    /\ query \in FallbackQueries
    /\ args = NoArgs
    /\ classification = EmptyDict
    /\ reply = NoReply
    /\ classifier_text = <<>>
    /\ metadata_filter = EmptyDict
    /\ collections = <<>>
    /\ search_query = <<>>
    /\ idx = 1
    /\ all_results = <<>>
    /\ calls = <<>>
    /\ store = NoStore
    /\ context = NoContext
    /\ raised = FALSE
    /\ prompt_context = NoContext
    /\ response_text = ""
    /\ final_text = ""
    /\ first_results = NoFirst

\* _fallback_classification(query)
FallbackClassify ==
    /\ pc = "fallback"
    /\ classification' = FallbackClassification(query)
    /\ pc' = "done"
    /\ UNCHANGED <<entry, cancelled, query, args, reply, classifier_text, metadata_filter, collections, search_query,
                   idx, all_results, calls, store, context, raised, prompt_context,
                   response_text, final_text, first_results>>

FallbackNext == FallbackClassify

FallbackSpec == FallbackInit /\ [][FallbackNext]_vars

(***************************************************************************)
(* The loop of _retrieve_context with the await of each call made visible: *)
(* the call is issued, and the loop goes on when the store has answered.   *)
(* The steps of the program are taken whenever they can be; the store owes *)
(* no answer.                                                              *)
(***************************************************************************)
WaitInit ==
    /\ entry = "await"
    /\ cancelled = FALSE
    /\ pc = "search"
    /\ query = Q_scenario
    /\ args = NoArgs
    /\ classification \in MergeClassifications
    /\ reply = NoReply
    /\ classifier_text = <<>>
    /\ metadata_filter = BuildFilter(classification)
    /\ collections = Route(classification)
    /\ search_query = JoinValue(SearchTerms(classification, query))
    /\ idx = 1
    /\ all_results = <<>>
    /\ calls = <<>>
    /\ store = NoStore
    /\ context = NoContext
    /\ raised = FALSE
    /\ prompt_context = NoContext
    /\ response_text = ""
    /\ final_text = ""
    /\ first_results = NoFirst

\* line 185: `await retrieve_documents(...)` is entered for collections[idx]
IssueCall ==
    /\ pc = "search"
    /\ idx <= Len(collections)
    /\ pc' = "waiting"
    /\ UNCHANGED <<entry, cancelled, query, args, classification, reply, classifier_text,
                   metadata_filter, collections, search_query, idx, all_results,
                   calls, store, context, raised, prompt_context, response_text,
                   final_text, first_results>>

\* lines 185-194: the store answers or raises, and the loop goes on; nothing
\* else ends the await
StoreResponds ==
    /\ pc = "waiting"
    /\ \E ans \in StoreAnswers(collections[idx],
                               ParamsOf(search_query, FilterOrNone(metadata_filter), NResults),
                               MaxDist) :
          /\ store' = Reveal(collections[idx], ans)
          /\ calls' = Append(calls, Call(collections[idx], search_query,
                                         FilterOrNone(metadata_filter), NResults, ans))
          /\ all_results' = IF ans.ok THEN all_results \o Documents(ans.hits)
                            ELSE all_results
    /\ idx' = idx + 1
    /\ pc' = "search"
    /\ UNCHANGED <<entry, cancelled, query, args, classification, reply, classifier_text,
                   metadata_filter, collections, search_query, context, raised,
                   prompt_context, response_text, final_text, first_results>>

WaitNext ==
    \/ IssueCall
    \/ StoreResponds
    \/ FormatContext

WaitSpec ==
    /\ WaitInit
    /\ [][WaitNext]_vars
    /\ WF_vars(IssueCall)
    /\ WF_vars(FormatContext)

(***************************************************************************)
(* process_query in a task that may be cancelled.  The cancellation is     *)
(* delivered as asyncio.CancelledError at the await the task is suspended  *)
(* in: the classifier call, a call of retrieve_documents, the generation   *)
(* call or the refinement call.  Each of them is inside `try: ... except   *)
(* Exception`.                                                             *)
(***************************************************************************)
\* a variant in which CancelledError is an Exception, as before Python 3.8
IsExceptionLegacy(e) == TRUE

\* isinstance(e, Exception): asyncio.CancelledError derives from
\* BaseException
IsException(e) == e # "CancelledError"

CancelInit ==
    /\ Init
    /\ query \in {Q_exam, Q_plain}

\* CancelledError is raised at the current await; a handler that catches it
\* does what it does for any other exception of its stage
Cancel ==
    /\ entry = "process_query"
    /\ ~cancelled
    /\ pc \in {"classify", "search", "generate", "refine"}
    /\ pc = "search" => idx <= Len(collections)
    /\ cancelled' = TRUE
    /\ IF ~IsException("CancelledError")
       THEN /\ raised' = TRUE
            /\ pc' = "cancelled"
            /\ UNCHANGED <<classification, reply, idx, prompt_context, response_text,
                           final_text>>
       ELSE /\ UNCHANGED raised
            /\ CASE pc = "classify" ->
                      /\ reply' = ReplyRaise
                      /\ classification' = FallbackClassification(query)
                      /\ pc' = "retrieve"
                      /\ UNCHANGED <<idx, prompt_context, response_text, final_text>>
                 [] pc = "search" ->
                      /\ idx' = idx + 1
                      /\ UNCHANGED <<pc, classification, reply, prompt_context,
                                     response_text, final_text>>
                 [] pc = "generate" ->
                      /\ prompt_context' = context
                      /\ response_text' = "I encountered an error processing your query"
                      /\ pc' = "refine"
                      /\ UNCHANGED <<classification, reply, idx, final_text>>
                 [] pc = "refine" ->
                      /\ final_text' = response_text
                      /\ pc' = "done"
                      /\ UNCHANGED <<classification, reply, idx, prompt_context,
                                     response_text>>
    /\ UNCHANGED <<entry, query, args, classifier_text, metadata_filter, collections,
                   search_query, all_results, calls, store, context, first_results>>

CancelNext ==
    \/ Next
    \/ Cancel

CancelSpec == CancelInit /\ [][CancelNext]_vars

(***************************************************************************)
(* process_query called twice on the same MultiAgentSystem, with the same  *)
(* query, the same classifier output and the same store.  The second call  *)
(* starts from whatever the first one left behind.                         *)
(***************************************************************************)
RepeatInit ==
    /\ Init
    /\ query \in {Q_exam, Q_plain}

\* the first call has returned; what it produced is kept for comparison and
\* process_query is called again
RunAgain ==
    /\ entry = "process_query"
    /\ pc = "done"
    /\ ~first_results.done
    /\ first_results' = [done |-> TRUE, top |-> all_results, context |-> context,
                         classification |-> classification,
                         metadata_filter |-> metadata_filter]
    /\ pc' = "reclassify"
    /\ UNCHANGED <<entry, cancelled, query, args, classification, reply, classifier_text,
                   metadata_filter, collections, search_query, idx, all_results,
                   calls, store, context, raised, prompt_context, response_text,
                   final_text>>

\* lines 95-109 in the second call: the classifier does what it did in the
\* first
ClassifyAgain ==
    /\ pc = "reclassify"
    /\ LET r == IF reply = ReplyRaise THEN ReplyRaise
                ELSE ParseJsonResponse(classifier_text)
       IN  /\ reply' = r
           /\ classification' = ClassificationOf(query, r)
    /\ pc' = "retrieve"
    /\ UNCHANGED <<entry, cancelled, query, args, classifier_text, metadata_filter,
                   collections, search_query, idx, all_results, calls, store, context,
                   raised, prompt_context, response_text, final_text, first_results>>

RepeatNext ==
    \/ Next
    \/ RunAgain
    \/ ClassifyAgain

RepeatSpec == RepeatInit /\ [][RepeatNext]_vars

(***************************************************************************)
(* process_query with every awaited call completing: the classifier, the   *)
(* store and the two agents each return or raise, so a step that can be    *)
(* taken is taken.                                                         *)
(***************************************************************************)
PipelineInit ==
    /\ Init
    /\ query \in {Q_exam, Q_plain}

\* the guard of FormatContext
FormatContextEnabled == pc = "search" /\ idx > Len(collections)

\* weak fairness of every step; that of FormatContext is written with its
\* guard in place of ENABLED <<FormatContext>>_vars
PipelineSpec ==
    /\ PipelineInit
    /\ [][Next]_vars
    /\ WF_vars(Classify)
    /\ WF_vars(RetrieveStart)
    /\ WF_vars(SearchCollection)
    /\ ([]<>(~FormatContextEnabled) \/ []<><<FormatContext>>_vars)
    /\ WF_vars(Generate)
    /\ WF_vars(Refine)

(***************************************************************************)
(* Properties.                                                             *)
(***************************************************************************)
\* the retrieval stage is over
AfterRetrieval == pc \in {"generate", "refine", "done"}

\* the loop over the collections has run to its end
Searched == AfterRetrieval /\ calls # <<>>

RECURSIVE Gathered(_)
\* what the first k collections contribute: the documents of the ones that
\* answered, nothing of the ones that failed
Gathered(k) ==
    IF k = 0 THEN <<>>
    ELSE Gathered(k - 1) \o (IF store[collections[k]].ok
                             THEN Documents(store[collections[k]].hits)
                             ELSE <<>>)

\* the elements of a sequence
Range(seq) == {seq[i] : i \in 1..Len(seq)}

\* C1: the merge of process_query queries every routed collection exactly
\* once and in order, whether or not earlier ones failed; a failing
\* collection adds no document, and the merged list is made of the documents
\* of the collections that answered; no error leaves the merge.
C1_MergeIsolatesFailures ==
    /\ ~raised
    /\ pc = "search" =>
          /\ Len(calls) = idx - 1
          /\ \A i \in 1..Len(calls) : calls[i].collection = collections[i]
          /\ all_results = Gathered(idx - 1)
    /\ Searched =>
          /\ Len(calls) = Len(collections)
          /\ \A i \in 1..Len(calls) : calls[i].collection = collections[i]
          /\ all_results = SortByRelevance(Gathered(Len(collections)))

\* the first collection failed, the second gave two documents, and the
\* context holds exactly those two
C1_Witness ==
    /\ Searched
    /\ ~store[collections[1]].ok
    /\ Len(store[collections[2]].hits) = 2
    /\ Range(all_results) = Range(Documents(store[collections[2]].hits))
    /\ context.kind = "block"
    /\ Len(context.entries) = 2

\* C2: whenever the merge over several collections ends with no document,
\* the context produced is the one sentinel text, the same on every
\* retrieval path, and nothing is raised.
C2_OneSentinel ==
    (pc \in {"generate", "refine", "done"} /\ Len(collections) > 1
        /\ Len(calls) = Len(collections) /\ all_results = <<>>)
       => (~raised /\ context = TextContext(NoDocsAgent))

\* the retrieval stage of process_query has failed: the search query could
\* not be built, the formatting raised, or every collection failed
RetrievalFailed ==
    /\ AfterRetrieval
    /\ \/ ~Joinable(SearchTerms(classification, query))
       \/ calls # <<>> /\ AgentFormatRaises(all_results)
       \/ calls # <<>> /\ \A i \in 1..Len(collections) : ~store[collections[i]].ok

\* C3: no exception leaves process_query because of the retrieval stage;
\* after a failure of that stage the context is the sentinel, the generation
\* step can run and it runs with that context.
C3_RetrievalFailureDegrades ==
    /\ ~raised
    /\ RetrievalFailed => context = TextContext(NoDocsAgent)
    /\ pc = "generate" => ENABLED Generate
    /\ pc \in {"refine", "done"} => prompt_context = context

\* the search terms are null, so the join raised, and generation has run
\* with the sentinel
C3_Witness ==
    /\ pc = "done"
    /\ ~Joinable(SearchTerms(classification, query))
    /\ calls = <<>>
    /\ prompt_context = TextContext(NoDocsAgent)

\* the place of a collection in the list searched
CollectionRank(c) == CHOOSE i \in 1..Len(collections) : collections[i] = c

\* document a was retrieved before document b
RetrievedBefore(a, b) ==
    \/ CollectionRank(a.content.src) < CollectionRank(b.content.src)
    \/ a.content.src = b.content.src /\ a.content.pos < b.content.pos

\* C4: the merged list is in descending relevance, documents of equal
\* relevance in retrieval order (collection order, then store order), and
\* the context lists the documents in that order.
C4_SortedStable ==
    Searched =>
       /\ \A i, j \in 1..Len(all_results) :
             i < j =>
                /\ all_results[i].relevance >= all_results[j].relevance
                /\ all_results[i].relevance = all_results[j].relevance
                      => RetrievedBefore(all_results[i], all_results[j])
       /\ context.kind = "block" =>
             \A i \in 1..Len(context.entries) :
                /\ context.entries[i].content.src = all_results[i].content.src
                /\ context.entries[i].content.pos = all_results[i].content.pos
                /\ context.entries[i].relevance = all_results[i].relevance

\* distances 0.1 and 0.3 from the first collection, 0.2 from the second:
\* merged as 0.1, 0.2, 0.3, relevance 0.9, 0.8, 0.7
C4_Witness ==
    /\ Searched
    /\ Len(all_results) = 3
    /\ [i \in 1..3 |-> all_results[i].distance] = <<1, 2, 3>>
    /\ [i \in 1..3 |-> all_results[i].relevance] = <<9, 8, 7>>
    /\ all_results[1].content.src = collections[1]
    /\ all_results[2].content.src = collections[2]
    /\ all_results[3].content.src = collections[1]
    /\ context.kind = "block"

\* C5: a context block holds at most TopK document entries.
C5_AtMostTopK ==
    context.kind = "block" => Len(context.entries) <= TopK

\* both merges of the pair are done
BothMerged == entry = "merge" /\ pc = "generate" /\ first_results.done

\* C6 as claimed: the two ranked top-K lists hold the same documents, with
\* the same relevance at every rank.
C6_SameDocuments ==
    BothMerged =>
       /\ Len(first_results.top) = Len(RankedTopK)
       /\ \A i \in 1..Len(RankedTopK) :
             first_results.top[i].relevance = RankedTopK[i].relevance
       /\ Range(first_results.top) = Range(RankedTopK)

\* the documents of a list that rank strictly above its last relevance
AboveCut(top) == {d \in Range(top) : d.relevance > top[Len(top)].relevance}

\* C6 as amended: the two ranked top-K lists have the same length and the
\* same relevance at every rank, and hold the same documents above the
\* lowest relevance kept; when nothing is cut off they hold the same
\* documents.
C6_SameRanking ==
    BothMerged =>
       /\ Len(first_results.top) = Len(RankedTopK)
       /\ \A i \in 1..Len(RankedTopK) :
             first_results.top[i].relevance = RankedTopK[i].relevance
       /\ RankedTopK # <<>> => AboveCut(first_results.top) = AboveCut(RankedTopK)
       /\ Len(all_results) <= TopK => Range(first_results.top) = Range(RankedTopK)

\* six documents, the cut falls inside a tie, and the two lists keep
\* different documents of the tie
C6_Witness ==
    /\ BothMerged
    /\ Len(all_results) = TopK + 1
    /\ Range(first_results.top) # Range(RankedTopK)

\* the query_type of the classification, None when it has none
QueryTypeOf(c) == GetOrNone(c, "query_type")

\* the router has run
Routed == entry = "process_query" /\ pc \notin {"classify", "retrieve"}

\* C7: a classification of type ia_feedback is routed to ia_guides, then
\* ia_examples, whatever its other fields.
C7_IaFeedbackRoute ==
    (Routed /\ QueryTypeOf(classification) = JStr(S_ia_feedback))
       => collections = <<"ia_guides", "ia_examples">>

\* an ia_feedback classification from the classifier, with a subject, a
\* level and search terms
C7_Witness ==
    /\ Routed
    /\ QueryTypeOf(classification) = JStr(S_ia_feedback)
    /\ GetOrNone(classification, "subject") = JStr(S_Physics)
    /\ GetOrNone(classification, "level") = JStr(S_HL)
    /\ collections = <<"ia_guides", "ia_examples">>

\* C8: the router gives every classification a non-empty list, and the
\* list of general_info when the query_type is missing, null or not one of
\* ia_feedback and exam_question; routing raises nothing.
C8_RouterTotal ==
    Routed =>
       /\ collections # <<>>
       /\ ~raised
       /\ QueryTypeOf(classification) \notin {JStr(S_ia_feedback), JStr(S_exam_question)}
             => collections = <<"ib_general", "syllabus">>

\* a classification with an unknown query_type, routed as general_info
C8_Witness ==
    /\ Routed
    /\ QueryTypeOf(classification) = JStr(S_past_paper)
    /\ collections = <<"ib_general", "syllabus">>

\* C9: every collection the router gives is one of the registry.
C9_RoutedInRegistry ==
    \A i \in 1..Len(collections) : collections[i] \in Registry

\* an attribute value that is neither null nor empty
Present(v) == v.t # "null" /\ ~(v.t = "str" /\ v.s = <<>>) /\ ~(v.t = "list" /\ v.items = <<>>)

\* C10: the filter has a key exactly for each attribute that is neither
\* null nor empty, its keys are among subject, level and doc_type, and its
\* values are non-empty strings.
C10_FilterWellFormed ==
    Routed =>
       /\ DOMAIN metadata_filter \subseteq {"subject", "level", "doc_type"}
       /\ \A k \in AgentFilterKeys :
             k \in DOMAIN metadata_filter <=> Present(GetOrNone(classification, k))
       /\ \A k \in DOMAIN metadata_filter :
             metadata_filter[k].t = "str" /\ metadata_filter[k].s # <<>>

\* the entries of a filter, as predicates
Entries(map) == {[key |-> k, value |-> map[k]] : k \in DOMAIN map}

\* document doc satisfies the entry of key k of the filter
Satisfies(doc, map, k) == k \in DOMAIN doc.metadata /\ doc.metadata[k] = map[k]

\* C11: a filter of one entry reaches the store as that one equality
\* predicate, a filter of two or more entries as the AND of one equality
\* predicate per entry, and no document a call returns fails an entry of
\* the filter of the call.
C11_ConjunctionSemantics ==
    \A i \in 1..Len(calls) :
        LET call == calls[i]
            map == call.filter.map
        IN  (~call.filter.none /\ DOMAIN map # {}) =>
                /\ "where" \in DOMAIN call.params
                /\ call.params.where.op = (IF Cardinality(DOMAIN map) = 1 THEN "eq" ELSE "and")
                /\ Len(call.params.where.preds) = Cardinality(DOMAIN map)
                /\ Range(call.params.where.preds) = Entries(map)
                /\ \A j \in 1..Len(call.outcome.documents) :
                      \A k \in DOMAIN map : Satisfies(call.outcome.documents[j], map, k)

\* a call with a filter of two entries returned a document while the
\* collection held a nearer one that satisfies one entry only
C11_Witness ==
    \E i \in 1..Len(calls) :
        LET call == calls[i]
            map == call.filter.map
            held == store[call.collection].held
        IN  /\ Cardinality(DOMAIN map) = 2
            /\ call.outcome.documents # <<>>
            /\ \E h \in 1..Len(held) :
                  /\ \E k \in DOMAIN map : Satisfies(held[h], map, k)
                  /\ \E k \in DOMAIN map : ~Satisfies(held[h], map, k)
                  /\ \A j \in 1..Len(call.outcome.documents) :
                        call.outcome.documents[j].content # held[h].content

\* the call was made with no filter: None, or the empty dict
Unfiltered(call) == call.filter.none \/ DOMAIN call.filter.map = {}

\* C12: a call made with no filter or with the empty one reaches the store
\* with no where clause, and what it returns is the n nearest documents the
\* collection holds, whatever their metadata.
C12_EmptyFilterMatchesAll ==
    \A i \in 1..Len(calls) :
        Unfiltered(calls[i]) =>
            /\ "where" \notin DOMAIN calls[i].params
            /\ calls[i].outcome.ok =>
                  /\ Len(calls[i].outcome.documents)
                        = Len(Take(store[calls[i].collection].held, calls[i].n))
                  /\ \A j \in 1..Len(calls[i].outcome.documents) :
                        calls[i].outcome.documents[j].content
                            = store[calls[i].collection].held[j].content

\* multi_collection_search passed the empty dict on, and a document without
\* any metadata came back
C12_Witness ==
    \E i \in 1..Len(calls) :
        /\ Len(collections) > 1
        /\ ~calls[i].filter.none
        /\ DOMAIN calls[i].filter.map = {}
        /\ \E j \in 1..Len(calls[i].outcome.documents) :
              DOMAIN calls[i].outcome.documents[j].metadata = {}

\* C13: every document a call returns has relevance 1 - distance, for the
\* distance the store gave its hit, also when that distance is above 1 and
\* the relevance below 0.
C13_RelevanceIsOneMinusDistance ==
    \A i \in 1..Len(calls) :
        calls[i].outcome.ok =>
            \A j \in 1..Len(calls[i].outcome.documents) :
                LET doc == calls[i].outcome.documents[j]
                    hit == store[calls[i].collection].hits[j]
                IN  /\ doc.distance = hit.distance
                    /\ doc.relevance + hit.distance = Unit

\* the context holds a document whose distance is above 1, with its
\* relevance below 0
C13_Witness ==
    /\ context.kind = "block"
    /\ \E j \in 1..Len(all_results) :
          /\ all_results[j].distance > Unit
          /\ all_results[j].relevance < 0
          /\ j <= Len(context.entries)
          /\ context.entries[j].relevance < 0

\* C14: a call of retrieve_documents whose collection does not exist or
\* whose store query fails ends with a RetrievalError that carries the name
\* of the collection and the cause, and returns no list.
C14_FailsWithRetrievalError ==
    \A i \in 1..Len(calls) :
        ~store[calls[i].collection].ok =>
            /\ ~calls[i].outcome.ok
            /\ calls[i].outcome.error.type = "RetrievalError"
            /\ "collection" \in DOMAIN calls[i].outcome.error
            /\ "cause" \in DOMAIN calls[i].outcome.error
            /\ calls[i].outcome.error.collection = calls[i].collection

\* the part of C14 the code keeps: a failure of the store is never an empty
\* list of documents
FailureIsNotEmptyList ==
    \A i \in 1..Len(calls) :
        ~store[calls[i].collection].ok =>
            ~calls[i].outcome.ok /\ calls[i].outcome.error # NoException

\* C15: a call the store answers returns one document per hit, with the
\* content, metadata and distance of the hit at the same position, at most n
\* of them, in ascending distance; an answer of fewer than n hits, or of
\* none, ends the call without an error.
C15_OneDocumentPerHit ==
    \A i \in 1..Len(calls) :
        LET ans == store[calls[i].collection]
            docs == calls[i].outcome.documents
        IN  ans.ok =>
                /\ calls[i].outcome.ok
                /\ calls[i].outcome.error = NoException
                /\ Len(docs) = Len(ans.hits)
                /\ Len(docs) <= calls[i].n
                /\ \A j \in 1..Len(docs) :
                      /\ docs[j].content = ans.hits[j].content
                      /\ docs[j].metadata = ans.hits[j].metadata
                      /\ docs[j].distance = ans.hits[j].distance
                /\ \A j \in 1..(Len(docs) - 1) : docs[j].distance <= docs[j + 1].distance

\* one call returned fewer than n documents and another none, both without
\* an error
C15_Witness ==
    /\ \E i \in 1..Len(calls) :
          /\ calls[i].outcome.ok
          /\ Len(calls[i].outcome.documents) = 2
          /\ calls[i].n = NResults
          /\ calls[i].outcome.documents[1].distance < calls[i].outcome.documents[2].distance
    /\ \E i \in 1..Len(calls) :
          /\ calls[i].outcome.ok
          /\ calls[i].outcome.documents = <<>>

\* the entry of the context made of the document
EntryOf(doc) ==
    CHOOSE e \in Range(context.entries) :
        e.content.src = doc.content.src /\ e.content.pos = doc.content.pos

\* the document is rendered in the context
Rendered(doc) ==
    \E e \in Range(context.entries) :
        e.content.src = doc.content.src /\ e.content.pos = doc.content.pos

\* C16: in a context block, content longer than 500 characters is shown as
\* its first 500 characters followed by the marker, and content of at most
\* 500 characters is shown whole, without the marker.
C16_TruncatesAtBudget ==
    context.kind = "block" =>
        /\ \A e \in Range(context.entries) :
              \E doc \in Range(all_results) :
                  e.content.src = doc.content.src /\ e.content.pos = doc.content.pos
        /\ \A doc \in Range(all_results) :
              Rendered(doc) =>
                  IF doc.content.len > 500
                  THEN EntryOf(doc).content.shown = 500 /\ EntryOf(doc).marker
                  ELSE EntryOf(doc).content.shown = doc.content.len /\ ~EntryOf(doc).marker

\* one context shows a document of 400 characters and one of exactly 500
\* whole, and one of 600 cut to 500 with the marker
C16_Witness ==
    /\ context.kind = "block"
    /\ \E e \in Range(context.entries) : e.content.shown = 400 /\ ~e.marker
    /\ \E doc \in Range(all_results) :
          doc.content.len = 500 /\ Rendered(doc) /\ ~EntryOf(doc).marker
    /\ \E doc \in Range(all_results) :
          doc.content.len = 600 /\ Rendered(doc) /\ EntryOf(doc).marker
                                /\ EntryOf(doc).content.shown = 500

\* the provenance keys of the formatter
ProvenanceKeys == {"source", "subject", "section"}

\* the labels of the provenance lines of an entry
Labels(e) == {e.provenance[n].label : n \in 1..Len(e.provenance)}

\* C17: in a context block the entry at position i has index i and is made
\* of the document at position i of the final order; it has a provenance
\* line for source, subject and section exactly when the metadata of the
\* document has that key, and the source line shows the basename of the path.
C17_ProvenanceOfPresentKeys ==
    context.kind = "block" =>
        \A i \in 1..Len(context.entries) :
            LET e == context.entries[i]
                doc == all_results[i]
            IN  /\ e.index = i
                /\ e.content.src = doc.content.src /\ e.content.pos = doc.content.pos
                /\ Labels(e) = ProvenanceKeys \cap DOMAIN doc.metadata
                /\ \A n \in 1..Len(e.provenance) :
                      e.provenance[n].label = "source" =>
                          /\ \A c \in 1..Len(e.provenance[n].value) :
                                e.provenance[n].value[c] # "/"
                          /\ e.provenance[n].value = <<"g", ".", "p", "d", "f">>

\* the fallback classifier has returned
Classified == entry = "fallback" /\ pc = "done"

\* the text has one of the keywords
HasAny(text, keywords) == \E k \in keywords : Contains(text, k)

IaKeywords == {K_ia, K_internal}
ExamKeywords == {K_exam, K_question, K_paper, K_solve}
AaKeywords == {K_aa, K_analysis}
AiKeywords == {K_ai, K_applications}
HlKeywords == {K_hl, K_higher}
SlKeywords == {K_sl, K_standard}
Keywords ==
    IaKeywords \cup ExamKeywords \cup {K_math} \cup HlKeywords \cup SlKeywords

\* the record is a classification: the four keys, a known query_type, a
\* subject and a level that are None or one of their values, and at most
\* five search terms, each a str
ValidClassification(c) ==
    /\ DOMAIN c = {"query_type", "subject", "level", "search_terms"}
    /\ c.query_type \in {JStr(S_ia_feedback), JStr(S_exam_question), JStr(S_general_info)}
    /\ c.subject \in {JNull, JStr(S_MathAA), JStr(S_MathAI)}
    /\ c.level \in {JNull, JStr(S_HL), JStr(S_SL)}
    /\ c.search_terms.t = "list"
    /\ Len(c.search_terms.items) <= 5
    /\ \A n \in 1..Len(c.search_terms.items) : c.search_terms.items[n].t = "str"

\* C18: the fallback classifier returns a classification for every query;
\* its query_type is ia_feedback when the lowercased query contains "ia" or
\* "internal assessment", else exam_question when it contains "exam",
\* "question", "paper" or "solve", else general_info; a query with no
\* keyword, the empty one included, gets general_info with subject and level
\* unset.
C18_FallbackQueryType ==
    /\ (entry = "fallback" /\ pc = "fallback") => ENABLED FallbackClassify
    /\ Classified =>
          LET ql == Lower(query)
          IN  /\ ValidClassification(classification)
              /\ classification.query_type =
                    (IF HasAny(ql, IaKeywords) THEN JStr(S_ia_feedback)
                     ELSE IF HasAny(ql, ExamKeywords) THEN JStr(S_exam_question)
                     ELSE JStr(S_general_info))
              /\ ~HasAny(ql, Keywords) =>
                    /\ classification.query_type = JStr(S_general_info)
                    /\ classification.subject = JNull
                    /\ classification.level = JNull
              /\ query = <<>> =>
                    classification = [query_type |-> JStr(S_general_info), subject |-> JNull,
                                      level |-> JNull, search_terms |-> JList(<<>>)]
              /\ query = <<"I", "A">> => classification.query_type = JStr(S_ia_feedback)
              /\ query = <<"s", "p", "e", "c", "i", "a", "l", " ", "e", "x", "a", "m">> =>
                    classification.query_type = JStr(S_ia_feedback)
              /\ query = <<"Q", "u", "e", "s", "t", "i", "o", "n">> =>
                    classification.query_type = JStr(S_exam_question)

\* a query with a keyword of both rules came out as ia_feedback
C18_Witness ==
    /\ Classified
    /\ HasAny(Lower(query), IaKeywords)
    /\ HasAny(Lower(query), ExamKeywords)
    /\ classification.query_type = JStr(S_ia_feedback)

\* C19: the fallback classifier sets a subject exactly when the lowercased
\* query contains "math": Mathematics AA when it also contains "aa" or
\* "analysis" or neither those nor "ai"/"applications", Mathematics AI when
\* it contains "ai" or "applications" and neither "aa" nor "analysis"; the
\* level is HL on "hl"/"higher level", else SL on "sl"/"standard level",
\* else unset; search_terms is the first five whitespace-delimited tokens of
\* the query as given.
C19_FallbackSubjectLevelTerms ==
    Classified =>
        LET ql == Lower(query)
            math == Contains(ql, K_math)
            aa == HasAny(ql, AaKeywords)
            ai == HasAny(ql, AiKeywords)
        IN  /\ (classification.subject # JNull) <=> math
            /\ (math /\ (aa \/ ~ai)) => classification.subject = JStr(S_MathAA)
            /\ (math /\ ai /\ ~aa) => classification.subject = JStr(S_MathAI)
            /\ classification.level =
                  (IF HasAny(ql, HlKeywords) THEN JStr(S_HL)
                   ELSE IF HasAny(ql, SlKeywords) THEN JStr(S_SL)
                   ELSE JNull)
            /\ classification.search_terms = JStrList(Take(Split(query), 5))
            /\ query = Q_scenario =>
                  /\ classification.subject = JStr(S_MathAA)
                  /\ classification.search_terms =
                        JStrList(<<<<"H", "o", "w">>, <<"d", "o">>, <<"I">>,
                                   <<"w", "r", "i", "t", "e">>, <<"a">>>>)
            /\ query = Q_spaced =>
                  /\ classification.level = JStr(S_HL)
                  /\ classification.search_terms =
                        JStrList(<<<<"s", "o", "l", "v", "e">>, <<"H", "L">>,
                                   <<"p", "a", "p", "e", "r">>, <<"o", "n", "e">>,
                                   <<"t", "w", "o">>>>)
            /\ query = <<"M", "a", "t", "h", " ", "A", "I">> =>
                  classification.subject = JStr(S_MathAI)

\* a math query of more than five tokens that names both courses came out
\* as Mathematics AA, with five search terms
C19_Witness ==
    /\ Classified
    /\ Contains(Lower(query), K_math)
    /\ HasAny(Lower(query), {K_aa}) /\ HasAny(Lower(query), {K_ai})
    /\ classification.subject = JStr(S_MathAA)
    /\ Len(Split(query)) > 5
    /\ Len(classification.search_terms.items) = 5

\* process_query runs on the scenario's query and the classifier agent
\* raised
ScenarioOne ==
    entry = "process_query" /\ query = Q_scenario /\ reply = ReplyRaise

\* both routed collections answered, and hold nothing
BothEmpty ==
    /\ Len(collections) = 2
    /\ \A k \in 1..2 :
          /\ collections[k] \in DOMAIN store
          /\ store[collections[k]].ok
          /\ store[collections[k]].held = <<>>

\* C20: with the classifier agent failing, the query "How do I write a good
\* Math AA IA introduction?" is classified as ia_feedback, Mathematics AA,
\* no level; the collections searched are ia_guides then ia_examples with
\* the subject as the filter; and when both hold nothing the context, and
\* the context in the generation prompt, is "No relevant documents found.".
C20_ScenarioOne ==
    ScenarioOne =>
        /\ pc # "classify" =>
              /\ classification.query_type = JStr(S_ia_feedback)
              /\ classification.subject = JStr(S_MathAA)
              /\ classification.level = JNull
        /\ pc \notin {"classify", "retrieve"} =>
              /\ collections = <<"ia_guides", "ia_examples">>
              /\ DOMAIN metadata_filter = {"subject"}
        /\ \A i \in 1..Len(calls) : calls[i].collection = collections[i]
        /\ (AfterRetrieval /\ BothEmpty) =>
              context = [kind |-> "text", text |-> "No relevant documents found.",
                         entries |-> <<>>]
        /\ (pc \in {"refine", "done"} /\ BothEmpty) =>
              prompt_context = [kind |-> "text", text |-> "No relevant documents found.",
                                entries |-> <<>>]

\* the scenario has run to its end over two empty collections
C20_Witness ==
    /\ ScenarioOne
    /\ pc = "done"
    /\ BothEmpty
    /\ Len(calls) = 2
    /\ prompt_context.text = "No relevant documents found."

\* the object has the four keys of a classification with values of their
\* kinds: a known query_type, a subject and a level that are None or a
\* non-empty str, search terms that are a list of str
HasRequired(o) ==
    /\ DOMAIN o = {"query_type", "subject", "level", "search_terms"}
    /\ o.query_type \in {JStr(S_ia_feedback), JStr(S_exam_question), JStr(S_general_info)}
    /\ o.subject = JNull \/ (o.subject.t = "str" /\ o.subject.s # <<>>)
    /\ o.level = JNull \/ (o.level.t = "str" /\ o.level.s # <<>>)
    /\ o.search_terms.t = "list"
    /\ \A n \in 1..Len(o.search_terms.items) : o.search_terms.items[n].t = "str"

\* the classifier agent returned a text and process_query has classified
ClassifiedFromText ==
    entry = "process_query" /\ pc # "classify" /\ reply # ReplyRaise

\* C21: of the classifier's text the part from the first '{' to the last
\* '}' is parsed; when there is no such part, when it does not parse, or
\* when the object parsed lacks a required key or has a value of the wrong
\* kind, the classification is the keyword fallback of the query, and
\* otherwise it is the object.
C21_FallbackUnlessUsable ==
    ClassifiedFromText =>
        /\ reply.kind = "object" =>
              /\ Find(classifier_text) # -1 /\ Find(classifier_text) < RFind(classifier_text)
              /\ \A k \in DOMAIN reply.obj :
                    \E i \in (Find(classifier_text) + 2)..RFind(classifier_text) :
                        classifier_text[i] = Member(k, reply.obj[k])
        /\ classification =
              (IF reply.kind = "object" /\ HasRequired(reply.obj)
               THEN reply.obj
               ELSE FallbackClassification(query))

\* the part of C21 the code keeps: no '{'..'}' part, or one that does not
\* parse, gives the keyword fallback
UnparsedFallsBack ==
    (ClassifiedFromText /\ reply.kind # "object") =>
        classification = FallbackClassification(query)

\* a text with two objects, or with words between the braces, was classified
\* by the fallback
UnparsedWitness ==
    /\ ClassifiedFromText
    /\ Len(classifier_text) > 2
    /\ Find(classifier_text) # -1 /\ Find(classifier_text) < RFind(classifier_text)
    /\ reply = ReplyNone
    /\ classification = FallbackClassification(query)

\* the text holds no object to use: no '{' or no '}', a part between them
\* that json.loads rejects, or the empty object
Unusable(text) ==
    \/ Find(text) = -1
    \/ RFind(text) = -1
    \/ ~Loads(Slice(text, Find(text), RFind(text) + 1))
    \/ \A i \in 1..Len(text) : text[i].tok # "member"

\* the classification step of process_query has failed: the call raised or
\* its text is unusable
ClassificationFailed ==
    /\ entry = "process_query"
    /\ pc # "classify"
    /\ reply = ReplyRaise \/ Unusable(classifier_text)

GenerationErrorText == "I encountered an error processing your query"

\* C23: what process_query returns after a failure of the generation or the
\* refinement step is output of an earlier stage, never an error message:
\* the refined text, or else the generation output, which is not the text of
\* an error.
C23_ReturnsPriorStageOutput ==
    (entry = "process_query" /\ pc = "done") =>
        /\ final_text \in {"refined answer", response_text}
        /\ final_text # GenerationErrorText

\* the part of C23 the code keeps: a failed refinement returns the
\* generation output as it is
RefinementFailureReturnsGeneration ==
    (entry = "process_query" /\ pc = "done" /\ final_text # "refined answer") =>
        final_text = response_text

\* C24: a merge whose collection does not answer is not held up by it: the
\* wait for that collection ends, the calls to the collections after it are
\* issued, and the merge completes with a context.
C24_MergeCompletes ==
    /\ [](pc = "waiting" => <>(pc # "waiting"))
    /\ <>(Len(calls) = Len(collections) /\ context # NoContext)

\* the calls of a merge are made one after the other: while one is awaited,
\* the collections after it have not been called
OneCallAtATime ==
    (entry = "await" /\ pc = "waiting") => Len(calls) = idx - 1

\* C25: a cancelled query has no answer: the cancellation leaves
\* process_query as an exception, no stage runs after it, and the documents
\* already gathered are put into no context, no prompt and no answer.
C25_CancelledNoAnswer ==
    cancelled =>
        /\ pc = "cancelled"
        /\ raised
        /\ final_text = ""
        /\ ~ENABLED CancelNext
        /\ context = NoContext => (prompt_context = NoContext /\ response_text = "")

\* the query was cancelled in the loop over the collections, with documents
\* of the first collection gathered and the second not yet called
C25_Witness ==
    /\ cancelled
    /\ pc = "cancelled"
    /\ Len(collections) = 2
    /\ Len(calls) = 1
    /\ all_results # <<>>
    /\ context = NoContext
    /\ final_text = ""

\* C26: nothing of one query is visible to the next: a second process_query
\* with the same query, classifier output and store answers arrives at the
\* same classification, the same filter, the same result list and the same
\* context as the first.
C26_SecondRunSameContext ==
    (entry = "process_query" /\ first_results.done
        /\ pc \in {"generate", "refine", "done"}) =>
        /\ classification = first_results.classification
        /\ metadata_filter = first_results.metadata_filter
        /\ all_results = first_results.top
        /\ context = first_results.context

\* the second call has returned, and both calls gathered documents from two
\* collections
C26_Witness ==
    /\ entry = "process_query"
    /\ first_results.done
    /\ pc = "done"
    /\ Len(calls) = 4
    /\ Len(all_results) > 1
    /\ context = AgentContext(all_results)

\* a store failure in some retrieve_documents call of the tool, whose
\* formatting has nothing to raise on
ToolStoreFailed ==
    /\ entry = "retrieve_context"
    /\ pc = "done"
    /\ \E i \in 1..Len(calls) : ~calls[i].outcome.ok
    /\ ~ToolFormatRaises(all_results)

\* C27: retrieve_context never raises for a store failure: it returns a
\* context string, the sentinel when nothing was retrieved, on the single
\* collection path and on the all collections path.
C27_ToolDegrades ==
    ToolStoreFailed =>
        /\ ~raised
        /\ context # NoContext
        /\ all_results = <<>> => context = ToolContext(<<>>)

\* on the all collections path the failure of a collection is absorbed
MultiPathDegrades ==
    (ToolStoreFailed /\ ~SingleCollection(args)) => (~raised /\ context # NoContext)

\* call i was made with the query text and the filter the merge holds now,
\* and they reached the store: no where clause for the empty filter
SameQueryAndFilter(i) ==
    /\ calls[i].query = search_query
    /\ calls[i].filter.map = metadata_filter
    /\ calls[i].params.query_texts = <<search_query>>
    /\ IF DOMAIN metadata_filter = {}
       THEN "where" \notin DOMAIN calls[i].params
       ELSE /\ "where" \in DOMAIN calls[i].params
            /\ calls[i].params.where = WhereFilter(FilterAsIs(metadata_filter))

\* C28: within one merge every collection is queried with the same query
\* text and the same metadata filter, with no filter when the filter is
\* empty; the query and the filter do not change between the calls.
C28_SameQueryAndFilter ==
    entry = "process_query" =>
        /\ \A i \in 1..Len(calls) : SameQueryAndFilter(i)
        /\ \A i, j \in 1..Len(calls) :
              /\ calls[i].query = calls[j].query
              /\ calls[i].filter = calls[j].filter
              /\ calls[i].n = calls[j].n

\* two collections were queried with a filter of two entries
C28_Witness ==
    /\ entry = "process_query"
    /\ Len(calls) = 2
    /\ calls[1].collection # calls[2].collection
    /\ Cardinality(DOMAIN metadata_filter) = 2
    /\ calls[2].params.where.op = "and"

\* the same in multi_collection_search, which hands the dict on as it is
MultiSearchSameQueryAndFilter ==
    (entry = "retrieve_context" /\ ~SingleCollection(args)) =>
        \A i \in 1..Len(calls) : SameQueryAndFilter(i) /\ calls[i].n = ToolPerCollection

\* the stages in the order of process_query
StageOf ==
    CASE pc = "classify" -> 1
      [] pc \in {"retrieve", "search"} -> 2
      [] pc = "generate" -> 3
      [] pc = "refine" -> 4
      [] OTHER -> 5

\* a step stays in the retrieval stage, on its next collection, or goes to
\* the stage that follows
StageOrder ==
    \/ StageOf' = StageOf + 1
    \/ StageOf' = StageOf /\ StageOf = 2 /\ (pc = "retrieve" \/ idx' = idx + 1)

\* C29: whatever stages fail, process_query goes through classification,
\* retrieval, generation and refinement in this order, each once, raises
\* nothing and ends by returning a result, after the refinement step.
C29_StagesInOrderAndReturns ==
    /\ [][StageOrder]_vars
    /\ [](~raised /\ (pc = "done" => final_text # ""))
    /\ <>(pc = "done")

\* every stage failed and process_query has returned
C29_Witness ==
    /\ entry = "process_query"
    /\ pc = "done"
    /\ reply = ReplyRaise
    /\ Len(calls) = 2
    /\ \A i \in 1..Len(calls) : ~calls[i].outcome.ok
    /\ response_text = GenerationErrorText
    /\ final_text = response_text
    /\ ~raised

\* doc_type is a key of DOC_TYPE_TO_COLLECTION
MappedDocType ==
    /\ args.doc_type.t = "str"
    /\ args.doc_type.s \in {D_ia_guide, D_ia_example, D_mark_scheme, D_syllabus,
                            S_general_info}

\* C30: retrieve_context selects the collections from doc_type alone: a
\* doc_type of the mapping gives one call, of the mapped collection with
\* cap n_results; any other gives one call of each of the five collections
\* with cap 2, and a doc_type that is not empty is in the filter of each.
C30_ToolSelectsByDocType ==
    (entry = "retrieve_context" /\ pc # "tool") =>
        /\ IF MappedDocType
           THEN /\ collections = <<DocTypeToCollection(args.doc_type.s)>>
                /\ \A i \in 1..Len(calls) : calls[i].n = ToolNResults
           ELSE /\ collections = AllCollections
                /\ {collections[i] : i \in 1..Len(collections)} = Registry
                /\ Len(collections) = Cardinality(Registry)
                /\ \A i \in 1..Len(calls) : calls[i].n = ToolPerCollection
        /\ Len(calls) <= Len(collections)
        /\ \A i \in 1..Len(calls) :
              /\ calls[i].collection = collections[i]
              /\ calls[i].params.n_results = calls[i].n
              /\ Truthy(args.doc_type) =>
                    /\ "doc_type" \in DOMAIN calls[i].filter.map
                    /\ calls[i].filter.map.doc_type = args.doc_type
                    /\ "where" \in DOMAIN calls[i].params
                    /\ \E k \in 1..Len(calls[i].params.where.preds) :
                          calls[i].params.where.preds[k] =
                             [key |-> "doc_type", value |-> args.doc_type]
        /\ (pc \in {"format", "done"} /\ ~raised) => Len(calls) = Len(collections)

\* an unknown doc_type: all five collections were called, each with the
\* doc_type in its filter
C30_Witness ==
    /\ entry = "retrieve_context"
    /\ pc = "done"
    /\ args.doc_type = JStr(D_essay)
    /\ Len(calls) = 5
    /\ calls[5].collection = "ib_general"
    /\ "doc_type" \in DOMAIN calls[5].filter.map
=============================================================================
